---------------------------- MODULE Spec2Model ----------------------------
(***************************************************************************)
(* A model of pyslimproto: the schema driven message codec of              *)
(* slim/message.py (struct based pack/unpack, the two framings, the        *)
(* factory that resolves a received frame) and the session of              *)
(* slim/client.py (connect, helo, the receive loop of run(), dispatch,     *)
(* status report, bye).                                                    *)
(*                                                                         *)
(* Bytes are integers 0..255 and byte strings are sequences of them.       *)
(* Python values are tagged records [t, v]: t is the Python type ("int",   *)
(* "bytes", "str", "None"), v the integer or the sequence of code points.  *)
(* The interpreter is Python 3 (util.hexlines formats the items of a bytes *)
(* object with %02x, which only works where they are integers), so bytes   *)
(* and str are different types and never compare equal.                    *)
(* An operation that can raise returns a record whose err field is ""      *)
(* on success and the name of the exception otherwise.                     *)
(* TLC's integers have 32 bits; the sampled inputs keep every decoded      *)
(* number below 2^31.                                                      *)
(***************************************************************************)
EXTENDS Integers, Sequences, FiniteSets, TLC

(***************************************************************************)
(* Python values                                                           *)
(***************************************************************************)
None == [t |-> "None", v |-> 0]

PyInt(n) == [t |-> "int", v |-> n]

PyBytes(s) == [t |-> "bytes", v |-> s]

PyStr(s) == [t |-> "str", v |-> s]

\* Python's == on two values of the model
PyEq(a, b) == a.t = b.t /\ a.v = b.v

Min(a, b) == IF a < b THEN a ELSE b

\* s[a:b] of Python for 0 <= a, 0 <= b (b is clipped to the length)
Slice(s, a, b) == SubSeq(s, a + 1, Min(b, Len(s)))

\* s[a:] of Python
SliceFrom(s, a) == SubSeq(s, a + 1, Len(s))

\* bytes.decode('ascii') succeeds only on bytes below 128
IsAscii(s) == \A k \in 1..Len(s) : s[k] < 128

LowerByte(b) == IF b >= 65 /\ b <= 90 THEN b + 32 ELSE b

UpperByte(b) == IF b >= 97 /\ b <= 122 THEN b - 32 ELSE b

\* str.lower() on ASCII text
Lower(s) == [k \in 1..Len(s) |-> LowerByte(s[k])]

\* str.upper() on ASCII text
Upper(s) == [k \in 1..Len(s) |-> UpperByte(s[k])]

(***************************************************************************)
(* struct: the format characters the message classes use, always with the  *)
(* '!' prefix (network order, standard sizes, no padding)                  *)
(***************************************************************************)
FmtSize(f) ==
    CASE f = "B" -> 1
      [] f = "b" -> 1
      [] f = "c" -> 1
      [] f = "H" -> 2
      [] f = "L" -> 4
      [] f = "I" -> 4
      [] f = "Q" -> 8
      [] f = "2s" -> 2
      [] f = "4s" -> 4
      [] f = "6s" -> 6
      [] f = "16s" -> 16

IsUnsignedFmt(f) == f \in {"B", "H", "L", "I", "Q"}

IsStringFmt(f) == f \in {"2s", "4s", "6s", "16s"}

RECURSIVE StructSize(_)
\* struct.Struct('!' + formats).size
StructSize(formats) ==
    IF formats = <<>> THEN 0
    ELSE FmtSize(Head(formats)) + StructSize(Tail(formats))

RECURSIVE BigEndian(_, _)
\* the w low bytes of n >= 0, most significant first
BigEndian(n, w) ==
    IF w = 0 THEN <<>> ELSE Append(BigEndian(n \div 256, w - 1), n % 256)

RECURSIVE ShiftRight(_, _)
\* n shifted right by w bytes
ShiftRight(n, w) == IF w = 0 THEN n ELSE ShiftRight(n \div 256, w - 1)

RECURSIVE FromBigEndian(_)
FromBigEndian(bs) ==
    IF bs = <<>> THEN 0
    ELSE FromBigEndian(SubSeq(bs, 1, Len(bs) - 1)) * 256 + bs[Len(bs)]

RECURSIVE ZeroBytes(_)
ZeroBytes(n) == IF n = 0 THEN <<>> ELSE <<0>> \o ZeroBytes(n - 1)

\* struct.pack of one value: [err, bytes]
PackValue(f, val) ==
    CASE IsUnsignedFmt(f) ->
           IF val.t = "int" /\ val.v >= 0 /\ ShiftRight(val.v, FmtSize(f)) = 0
           THEN [err |-> "", bytes |-> BigEndian(val.v, FmtSize(f))]
           ELSE [err |-> "struct.error", bytes |-> <<>>]
      [] f = "b" ->
           IF val.t = "int" /\ val.v >= -128 /\ val.v <= 127
           THEN [err |-> "", bytes |-> <<(val.v + 256) % 256>>]
           ELSE [err |-> "struct.error", bytes |-> <<>>]
      [] f = "c" ->
           IF val.t = "bytes" /\ Len(val.v) = 1
           THEN [err |-> "", bytes |-> val.v]
           ELSE [err |-> "struct.error", bytes |-> <<>>]
      [] IsStringFmt(f) ->
           \* a longer value is truncated, a shorter one padded with NUL
           IF val.t = "bytes"
           THEN [err |-> "",
                 bytes |-> Slice(val.v, 0, FmtSize(f))
                           \o ZeroBytes(FmtSize(f) - Min(Len(val.v), FmtSize(f)))]
           ELSE [err |-> "struct.error", bytes |-> <<>>]

RECURSIVE PackValues(_, _)
PackValues(formats, values) ==
    IF formats = <<>> THEN [err |-> "", bytes |-> <<>>]
    ELSE LET h == PackValue(Head(formats), Head(values))
             r == PackValues(Tail(formats), Tail(values))
         IN  IF h.err # "" THEN h
             ELSE IF r.err # "" THEN r
             ELSE [err |-> "", bytes |-> h.bytes \o r.bytes]

\* struct.pack('!' + formats, *values): [err, bytes]
StructPack(formats, values) ==
    IF Len(formats) # Len(values)
    THEN [err |-> "struct.error", bytes |-> <<>>]
    ELSE PackValues(formats, values)

\* struct.unpack of one field from exactly FmtSize(f) bytes
UnpackValue(f, bs) ==
    CASE IsUnsignedFmt(f) -> PyInt(FromBigEndian(bs))
      [] f = "b" -> PyInt(IF bs[1] >= 128 THEN bs[1] - 256 ELSE bs[1])
      [] f = "c" -> PyBytes(bs)
      [] IsStringFmt(f) -> PyBytes(bs)

RECURSIVE UnpackValues(_, _)
UnpackValues(formats, bs) ==
    IF formats = <<>> THEN <<>>
    ELSE <<UnpackValue(Head(formats), Slice(bs, 0, FmtSize(Head(formats))))>>
         \o UnpackValues(Tail(formats), SliceFrom(bs, FmtSize(Head(formats))))

\* struct.Struct('!' + formats).unpack(data): [err, values]
StructUnpack(formats, data) ==
    IF Len(data) # StructSize(formats)
    THEN [err |-> "struct.error", values |-> <<>>]
    ELSE [err |-> "", values |-> UnpackValues(formats, data)]

(***************************************************************************)
(* The message classes of slim/message.py                                  *)
(***************************************************************************)
\* one entry of a class's structure list, 'key:formatchar' already split
Field(k, f) == [key |-> k, fmt |-> f]

\* SlimClientMessage.__subclasses__(), in definition order
ClientClasses == <<"Helo", "Bye", "Stat">>

\* SlimServerMessage.__subclasses__(), in definition order
ServerClasses == <<"Strm", "Aude", "Audg", "AudgSequence", "Setd">>

Range(s) == {s[k] : k \in 1..Len(s)}

Classes == Range(ClientClasses) \cup Range(ServerClasses)

\* the base class decides the framing: "client" or "server"
Base(cls) == IF cls \in Range(ClientClasses) THEN "client" ELSE "server"

Subclasses(base) == IF base = "client" THEN ClientClasses ELSE ServerClasses

\* header_size of the two base classes
HeaderSize(base) == IF base = "client" THEN 8 ELSE 6

\* cls.__name__ as ASCII codes
ClassIdent(cls) ==
    CASE cls = "Helo" -> <<72, 101, 108, 111>>
      [] cls = "Bye" -> <<66, 121, 101>>
      [] cls = "Stat" -> <<83, 116, 97, 116>>
      [] cls = "Strm" -> <<83, 116, 114, 109>>
      [] cls = "Aude" -> <<65, 117, 100, 101>>
      [] cls = "Audg" -> <<65, 117, 100, 103>>
      [] cls = "AudgSequence" -> <<65, 117, 100, 103, 83, 101, 113, 117, 101, 110, 99, 101>>
      [] cls = "Setd" -> <<83, 101, 116, 100>>

\* the text 'message'
MessageSuffix == <<109, 101, 115, 115, 97, 103, 101>>  \* 'message'

\* the classes that set the class attribute name themselves
HasNameAttr(cls) == cls \in {"Bye", "AudgSequence"}

NameAttr(cls) == IF cls = "Bye" THEN <<98, 121, 101, 33>> ELSE <<97, 117, 100, 103>>

EndsWith(s, suffix) ==
    Len(s) >= Len(suffix) /\ SliceFrom(s, Len(s) - Len(suffix)) = suffix

\* SlimMessage.name: the class attribute, else the lower-cased class name
\* without a trailing 'message'
ClassName(cls) ==
    IF HasNameAttr(cls) THEN NameAttr(cls)
    ELSE LET n == Lower(ClassIdent(cls))
         IN  IF EndsWith(n, MessageSuffix)
             THEN Slice(n, 0, Len(n) - Len(MessageSuffix))
             ELSE n

\* ClassName, computed once for each class
Names == [cls \in Classes |-> ClassName(cls)]

Name(cls) == Names[cls]

Structure(cls) ==
    CASE cls = "Helo" ->
           <<Field("deviceid", "B"), Field("revision", "B"), Field("mac", "6s"),
             Field("hostid", "16s"), Field("wifi", "H"), Field("bytes", "Q"),
             Field("language", "2s")>>
      [] cls = "Bye" -> <<Field("upgrade", "B")>>
      [] cls = "Stat" ->
           <<Field("event_code", "4s"), Field("crlf", "B"),
             Field("mas_initialized", "c"), Field("mas_mode", "c"),
             Field("buffer_size", "L"), Field("buffer_fill", "L"),
             Field("bytes_received", "Q"), Field("signal_strength", "H"),
             Field("jiffies", "L"), Field("output_buffer_size", "L"),
             Field("output_buffer_fill", "L"), Field("elapsed_seconds", "L"),
             Field("voltage", "H"), Field("elapsed_milliseconds", "L"),
             Field("server_timestamp", "L"), Field("error_code", "H")>>
      [] cls = "Strm" ->
           <<Field("command", "c"), Field("autostart", "c"), Field("mode", "c"),
             Field("pcm_sample_size", "c"), Field("pcm_sample_rate", "c"),
             Field("pcm_channels", "c"), Field("pcm_endian", "c"),
             Field("threshold", "b"), Field("spdif_enable", "b"),
             Field("transition_period", "b"), Field("transition_type", "c"),
             Field("flags", "b"), Field("output_threshold", "b"),
             Field("slaves", "b"), Field("replay_gain", "L"),
             Field("server_port", "H"), Field("server_ip", "I"),
             Field("headers", "*")>>
      [] cls = "Aude" -> <<Field("spdif_enable", "b"), Field("dac_enable", "b")>>
      [] cls = "Audg" ->
           <<Field("old_left", "L"), Field("old_right", "L"),
             Field("digitalvolumecontrol", "B"), Field("preamp", "B"),
             Field("new_left", "L"), Field("new_right", "L")>>
      [] cls = "AudgSequence" ->
           <<Field("old_left", "L"), Field("old_right", "L"),
             Field("digitalvolumecontrol", "B"), Field("preamp", "B"),
             Field("new_left", "L"), Field("new_right", "L"),
             Field("sequence", "L")>>
      [] cls = "Setd" -> <<Field("pref_id", "B"), Field("value", "*")>>

(***************************************************************************)
(* SlimMessage: an instance is [cls, keys, formats, data]                  *)
(***************************************************************************)
EmptyDict == [k \in {} |-> None]

\* the instance before __init__ has added a field
NewMessage(cls) ==
    [cls |-> cls, keys |-> <<>>, formats |-> <<>>, data |-> EmptyDict]

\* the absent message (factory's None)
NoMessage == [cls |-> "None", keys |-> <<>>, formats |-> <<>>, data |-> EmptyDict]

_has_variable_field(m) == Len(m.keys) # Len(m.formats)

\* an add_field without the check for a variable field
add_fieldUnchecked(m, definition) ==
    LET withKey == [m EXCEPT !.data = (definition.key :> None) @@ m.data]
    IN  [err |-> "",
         m |-> [withKey EXCEPT
                  !.keys = Append(withKey.keys, definition.key),
                  !.formats = IF definition.fmt # "*"
                              THEN Append(withKey.formats, definition.fmt)
                              ELSE withKey.formats]]

\* add_field: [err, m]; the key's data slot is set before the check raises
add_field(m, definition) ==
    LET withKey == [m EXCEPT !.data = (definition.key :> None) @@ m.data]
    IN  IF _has_variable_field(withKey)
        THEN [err |-> "Exception", m |-> withKey]
        ELSE [err |-> "",
              m |-> [withKey EXCEPT
                       !.keys = Append(withKey.keys, definition.key),
                       !.formats = IF definition.fmt # "*"
                                   THEN Append(withKey.formats, definition.fmt)
                                   ELSE withKey.formats]]

RECURSIVE AddFields(_, _)
\* the loop of __init__ over the structure; the first exception ends it
AddFields(m, defs) ==
    IF defs = <<>> THEN [err |-> "", m |-> m]
    ELSE LET r == add_field(m, Head(defs))
         IN  IF r.err # "" THEN r ELSE AddFields(r.m, Tail(defs))

\* SlimMessage.__setitem__
SetItem(m, key, value) == [m EXCEPT !.data = (key :> value) @@ m.data]

\* SlimMessage.values(): the stored values in key order
values(m) == [k \in 1..Len(m.keys) |-> m.data[m.keys[k]]]

RECURSIVE ZipDict(_, _)
\* dict(zip(keys, vals)): zip stops at the shorter one, and a repeated key
\* keeps its last value
ZipDict(keys, vals) ==
    IF keys = <<>> \/ vals = <<>> THEN EmptyDict
    ELSE ZipDict(Tail(keys), Tail(vals)) @@ (Head(keys) :> Head(vals))

\* an unpack that reads the structure's bytes and ignores what follows them,
\* whether or not the last field is a variable one
unpackPrefix(m, binarydata) ==
    LET body == SliceFrom(binarydata, Min(HeaderSize(Base(m.cls)), Len(binarydata)))
        size == StructSize(m.formats)
        data == Slice(body, 0, size)
        variable_field_value == SliceFrom(body, Min(size, Len(body)))
    IN  IF size # Len(data)
        THEN [err |-> "ValueError", m |-> m]
        ELSE LET u == StructUnpack(m.formats, data)
                 vals == IF _has_variable_field(m)
                         THEN Append(u.values, PyBytes(variable_field_value))
                         ELSE u.values
             IN  [err |-> "", m |-> [m EXCEPT !.data = ZipDict(m.keys, vals)]]

\* an unpack that forgets the stored values before it checks the length
unpackClearsFirst(m, binarydata) ==
    LET body == SliceFrom(binarydata, Min(HeaderSize(Base(m.cls)), Len(binarydata)))
        size == StructSize(m.formats)
        data == IF _has_variable_field(m) THEN Slice(body, 0, size) ELSE body
        variable_field_value == SliceFrom(body, Min(size, Len(body)))
        cleared == [m EXCEPT !.data = ZipDict(m.keys, [k \in 1..Len(m.keys) |-> None])]
    IN  IF size # Len(data)
        THEN [err |-> "ValueError", m |-> cleared]
        ELSE LET u == StructUnpack(m.formats, data)
                 vals == IF _has_variable_field(m)
                         THEN Append(u.values, PyBytes(variable_field_value))
                         ELSE u.values
             IN  IF u.err # "" THEN [err |-> u.err, m |-> cleared]
                 ELSE [err |-> "", m |-> [m EXCEPT !.data = ZipDict(m.keys, vals)]]

\* SlimMessage.unpack(binarydata): [err, m]
unpack(m, binarydata) ==
    LET body == SliceFrom(binarydata, Min(HeaderSize(Base(m.cls)), Len(binarydata)))
        size == StructSize(m.formats)
        data == IF _has_variable_field(m) THEN Slice(body, 0, size) ELSE body
        variable_field_value == SliceFrom(body, Min(size, Len(body)))
    IN  IF size # Len(data)
        THEN [err |-> "ValueError", m |-> m]
        ELSE LET u == StructUnpack(m.formats, data)
                 vals == IF _has_variable_field(m)
                         THEN Append(u.values, PyBytes(variable_field_value))
                         ELSE u.values
             IN  IF u.err # "" THEN [err |-> u.err, m |-> m]
                 ELSE [err |-> "", m |-> [m EXCEPT !.data = ZipDict(m.keys, vals)]]

\* SlimMessage.__init__() without data: [err, m]
Construct(cls) == AddFields(NewMessage(cls), Structure(cls))

\* Construct, computed once for each class
Constructed == [cls \in Classes |-> Construct(cls)]

\* SlimMessage.__init__(data): [err, m]
ConstructFrom(cls, data) ==
    IF Constructed[cls].err # "" THEN Constructed[cls]
    ELSE unpack(Constructed[cls].m, data)

(***************************************************************************)
(* The two framings                                                        *)
(***************************************************************************)
\* add_header variants with a wrong length field: the client one counts the
\* header too, the server one leaves the name out
ClientAddHeaderWholeLength(cls, binarydata) ==
    LET h == StructPack(<<"4s", "I">>,
                        <<PyBytes(Upper(Name(cls))), PyInt(Len(binarydata) + 8)>>)
    IN  IF h.err # "" THEN h ELSE [err |-> "", bytes |-> h.bytes \o binarydata]

ServerAddHeaderBodyLength(cls, binarydata) ==
    LET h == StructPack(<<"H", "4s">>,
                        <<PyInt(Len(binarydata)), PyBytes(Lower(Name(cls)))>>)
    IN  IF h.err # "" THEN h ELSE [err |-> "", bytes |-> h.bytes \o binarydata]

\* SlimClientMessage.add_header: 4s name in upper case, I length of the body
ClientAddHeader(cls, binarydata) ==
    LET h == StructPack(<<"4s", "I">>,
                        <<PyBytes(Upper(Name(cls))), PyInt(Len(binarydata))>>)
    IN  IF h.err # "" THEN h ELSE [err |-> "", bytes |-> h.bytes \o binarydata]

\* an add_header whose length field is the low 16 bits of the length
ServerAddHeaderWraps(cls, binarydata) ==
    LET h == StructPack(<<"H", "4s">>,
                        <<PyInt((Len(binarydata) + 4) % 65536),
                          PyBytes(Lower(Name(cls)))>>)
    IN  IF h.err # "" THEN h ELSE [err |-> "", bytes |-> h.bytes \o binarydata]

\* SlimServerMessage.add_header: H length of name and body, 4s name in lower case
ServerAddHeader(cls, binarydata) ==
    LET h == StructPack(<<"H", "4s">>,
                        <<PyInt(Len(binarydata) + 4), PyBytes(Lower(Name(cls)))>>)
    IN  IF h.err # "" THEN h ELSE [err |-> "", bytes |-> h.bytes \o binarydata]

add_header(cls, binarydata) ==
    IF Base(cls) = "client" THEN ClientAddHeader(cls, binarydata)
    ELSE ServerAddHeader(cls, binarydata)

\* struct.unpack('! 4s', piece)[0].decode('ascii').lower(): [err, name]
DecodeName(piece) ==
    IF Len(piece) # 4 THEN [err |-> "struct.error", name |-> <<>>]
    ELSE IF ~IsAscii(piece) THEN [err |-> "UnicodeDecodeError", name |-> <<>>]
    ELSE [err |-> "", name |-> Lower(piece)]

\* SlimClientMessage.name_from_data
ClientNameFromData(data) == DecodeName(Slice(data, 0, 4))

\* SlimServerMessage.name_from_data
ServerNameFromData(data) == DecodeName(Slice(data, Min(2, Len(data)), 6))

name_from_data(base, data) ==
    IF base = "client" THEN ClientNameFromData(data) ELSE ServerNameFromData(data)

(***************************************************************************)
(* pack                                                                    *)
(***************************************************************************)
\* bytearray(value, 'ascii'): [err, bytes]
ToByteArray(value) ==
    IF value.t # "str" THEN [err |-> "TypeError", bytes |-> <<>>]
    ELSE IF ~IsAscii(value.v) THEN [err |-> "UnicodeEncodeError", bytes |-> <<>>]
    ELSE [err |-> "", bytes |-> value.v]

\* the part of pack after the values are chosen; isTuple: values is args
PackBody(m, vals, isTuple) ==
    IF _has_variable_field(m)
    THEN IF isTuple THEN [err |-> "AttributeError", bytes |-> <<>>]
         ELSE IF vals = <<>> THEN [err |-> "IndexError", bytes |-> <<>>]
         ELSE LET variable_field_value == ToByteArray(vals[Len(vals)])
                  fixed == StructPack(m.formats, SubSeq(vals, 1, Len(vals) - 1))
              IN  IF variable_field_value.err # "" THEN variable_field_value
                  ELSE IF fixed.err # "" THEN fixed
                  ELSE add_header(m.cls, fixed.bytes \o variable_field_value.bytes)
    ELSE LET fixed == StructPack(m.formats, vals)
         IN  IF fixed.err # "" THEN fixed ELSE add_header(m.cls, fixed.bytes)

\* pack(*args, **kwargs): args a tuple, kwargs a dict (a function on its keys)
pack(m, args, kwargs) ==
    IF args # <<>> THEN PackBody(m, args, TRUE)
    ELSE IF DOMAIN kwargs # {}
    THEN PackBody(m, [k \in 1..Len(m.keys) |->
                        IF m.keys[k] \in DOMAIN kwargs THEN kwargs[m.keys[k]]
                        ELSE None], FALSE)
    ELSE PackBody(m, values(m), FALSE)

\* a pack that takes the variable field off the message's own key list
AfterPackPopsKeys(m, args, kwargs) ==
    IF _has_variable_field(m) /\ args = <<>>
    THEN [m EXCEPT !.keys = SubSeq(m.keys, 1, Len(m.keys) - 1)]
    ELSE m

\* the message after pack(*args, **kwargs), whether pack returned or raised:
\* no statement of pack assigns to self, and the list values.pop() shortens
\* is one pack was given or has built, or the new list values() returns
AfterPack(m, args, kwargs) == m

(***************************************************************************)
(* factory                                                                 *)
(***************************************************************************)
RECURSIVE TryFirstClass(_, _, _)
\* a factory loop that gives up after the first class of that name
TryFirstClass(classes, messagename, data) ==
    IF classes = <<>> THEN [err |-> "", m |-> NoMessage]
    ELSE IF Name(Head(classes)) = messagename
    THEN LET r == ConstructFrom(Head(classes), data)
         IN  IF r.err = "" THEN r
             ELSE IF r.err = "ValueError" THEN [err |-> "", m |-> NoMessage]
             ELSE [err |-> r.err, m |-> NoMessage]
    ELSE TryFirstClass(Tail(classes), messagename, data)

RECURSIVE TryClassesLastWins(_, _, _)
\* a loop over the subclasses that does not stop at the first success: the
\* outcome of the last class of that name is what it returns
TryClassesLastWins(classes, messagename, data) ==
    IF classes = <<>> THEN [err |-> "", m |-> NoMessage]
    ELSE LET last == classes[Len(classes)]
             r == ConstructFrom(last, data)
         IN  IF Name(last) = messagename
             THEN IF r.err = "" THEN r
                  ELSE IF r.err = "ValueError" THEN [err |-> "", m |-> NoMessage]
                  ELSE [err |-> r.err, m |-> NoMessage]
             ELSE TryClassesLastWins(SubSeq(classes, 1, Len(classes) - 1),
                                     messagename, data)

RECURSIVE TryClassesRaisesUnknown(_, _, _)
\* a factory that raises when no class has taken the frame
TryClassesRaisesUnknown(classes, messagename, data) ==
    IF classes = <<>> THEN [err |-> "UnknownMessage", m |-> NoMessage]
    ELSE IF Name(Head(classes)) = messagename
    THEN LET r == ConstructFrom(Head(classes), data)
         IN  IF r.err = "" THEN r
             ELSE IF r.err = "ValueError"
             THEN TryClassesRaisesUnknown(Tail(classes), messagename, data)
             ELSE [err |-> r.err, m |-> NoMessage]
    ELSE TryClassesRaisesUnknown(Tail(classes), messagename, data)

RECURSIVE TryClassesAnyName(_, _, _)
\* a factory that does not compare names: the first class that takes the bytes
TryClassesAnyName(classes, messagename, data) ==
    IF classes = <<>> THEN [err |-> "", m |-> NoMessage]
    ELSE LET r == ConstructFrom(Head(classes), data)
         IN  IF r.err = "" THEN r
             ELSE IF r.err = "ValueError"
             THEN TryClassesAnyName(Tail(classes), messagename, data)
             ELSE [err |-> r.err, m |-> NoMessage]

RECURSIVE TryClasses(_, _, _)
\* the loop of factory over the subclasses: the first class of that name
\* whose constructor does not raise ValueError
TryClasses(classes, messagename, data) ==
    IF classes = <<>> THEN [err |-> "", m |-> NoMessage]
    ELSE IF Name(Head(classes)) = messagename
    THEN LET r == ConstructFrom(Head(classes), data)
         IN  IF r.err = "" THEN r
             ELSE IF r.err = "ValueError"
             THEN TryClasses(Tail(classes), messagename, data)
             ELSE [err |-> r.err, m |-> NoMessage]
    ELSE TryClasses(Tail(classes), messagename, data)

\* SlimMessage.factory(data) on the base class: [err, m], m = NoMessage for None
factory(base, data) ==
    LET n == name_from_data(base, data)
    IN  IF n.err # "" THEN [err |-> n.err, m |-> NoMessage]
        ELSE TryClasses(Subclasses(base), n.name, data)

(***************************************************************************)
(* SlimClient: dispatch and the messages it builds                         *)
(***************************************************************************)
\* the handle_* methods SlimClient defines, by the name after 'handle_'
\* a client without handle_strm_t
HandlersWithoutStrmT ==
    {<<97, 117, 100, 101>>, <<97, 117, 100, 103>>, <<115, 101, 116, 100>>,
     <<115, 116, 114, 109>>}

Handlers == {<<97, 117, 100, 101>>, <<97, 117, 100, 103>>, <<115, 101, 116, 100>>, <<115, 116, 114, 109>>, <<115, 116, 114, 109, 95, 116>>}

\* re.sub('[^a-z_]', '', text)
RECURSIVE StripNonLower(_)
StripNonLower(text) ==
    IF text = <<>> THEN <<>>
    ELSE IF (Head(text) >= 97 /\ Head(text) <= 122) \/ Head(text) = 95
         THEN <<Head(text)>> \o StripNonLower(Tail(text))
         ELSE StripNonLower(Tail(text))

\* what a dispatch did: the exception it raised, whether action_stmt was
\* called and with which timestamp, and the handlers invoked in order
Handled(e, stmt, ts, trail) ==
    [err |-> e, stmt |-> stmt, timestamp |-> ts, trail |-> trail]

RECURSIVE handle_message(_, _, _)
\* handle_message(message, name); name = <<>> stands for the default None
handle_message(message, name, trail) ==
    IF message = NoMessage \/ Len(message.keys) = 0
    THEN Handled("", FALSE, None, trail)
    ELSE LET n == IF name = <<>>
                  THEN StripNonLower(Lower(Name(message.cls)))
                  ELSE name
         IN  IF n \notin Handlers THEN Handled("", FALSE, None, trail)
             ELSE IF n = <<115, 116, 114, 109>>
             THEN \* handle_strm: re-dispatch on the sub-command
                  LET command == message.data["command"]
                  IN  IF ~IsAscii(command.v)
                      THEN Handled("UnicodeDecodeError", FALSE, None,
                                   Append(trail, n))
                      ELSE handle_message(message, <<115, 116, 114, 109, 95>> \o command.v,
                                          Append(trail, n))
             ELSE IF n = <<115, 116, 114, 109, 95, 116>>
             THEN \* handle_strm_t: action_stmt(message['replay_gain'])
                  Handled("", TRUE, message.data["replay_gain"], Append(trail, n))
             ELSE \* handle_aude, handle_audg, handle_setd only log
                  Handled("", FALSE, None, Append(trail, n))

\* time.time() * 1000 split as wraps * 2^32 + rem, 0 <= rem < 2^32
\* get_jiffies: int((time.time() * 1000) % 2^32)
get_jiffies(now) == now.rem

RECURSIVE SetItems(_, _)
SetItems(m, items) ==
    IF items = <<>> THEN m
    ELSE SetItems(SetItem(m, Head(items)[1], Head(items)[2]), Tail(items))

\* the Stat message action_stmt fills in
StmtFields(timestamp, now) ==
    SetItems(Constructed["Stat"].m,
             << <<"event_code", PyBytes(<<83, 84, 77, 116>>)>>,
                <<"crlf", PyInt(0)>>,
                <<"mas_initialized", PyBytes(<<48>>)>>,
                <<"mas_mode", PyBytes(<<48>>)>>,
                <<"buffer_size", PyInt(0)>>,
                <<"buffer_fill", PyInt(0)>>,
                <<"bytes_received", PyInt(0)>>,
                <<"signal_strength", PyInt(100)>>,
                <<"jiffies", PyInt(get_jiffies(now))>>,
                <<"output_buffer_size", PyInt(0)>>,
                <<"output_buffer_fill", PyInt(0)>>,
                <<"elapsed_seconds", PyInt(0)>>,
                <<"voltage", PyInt(0)>>,
                <<"elapsed_milliseconds", PyInt(0)>>,
                <<"server_timestamp", timestamp>>,
                <<"error_code", PyInt(0)>> >>)

\* an action_stmt that reports the timestamp 0 when it is given none
action_stmtDefault(timestamp, now) ==
    pack(StmtFields(IF timestamp = None THEN PyInt(0) ELSE timestamp, now),
         <<>>, EmptyDict)

\* the bytes action_stmt hands to send: [err, bytes]
action_stmt(timestamp, now) == pack(StmtFields(timestamp, now), <<>>, EmptyDict)

\* meta.deviceid, meta.revision
deviceid == 12

revision == 0

\* meta.mac and meta.hostid come from uuid.getnode(); one host's values
mac == <<0, 17, 34, 51, 68, 85>>

hostid == <<1, 2, 3, 4, 5, 6, 7, 8, 9, 10, 11, 12, 13, 14, 15, 16>>

\* SlimClient.wifichannels = 0b0000011111111111
wifichannels == 2047

\* SlimClient.language = b'en'
language == <<101, 110>>

\* SlimClient.buffersize
buffersize == 1024

\* the positional arguments of action_helo (bytesreceived is 0 and never changes)
HeloArgs ==
    <<PyInt(deviceid), PyInt(revision), PyBytes(mac), PyBytes(hostid),
      PyInt(wifichannels), PyInt(0), PyBytes(language)>>

\* the bytes action_helo hands to send: [err, bytes]
action_helo == pack(Constructed["Helo"].m, HeloArgs, EmptyDict)

\* the bytes action_bye hands to send: Bye().pack(upgrade=False)
ByeData == pack(Constructed["Bye"].m, <<>>, [upgrade |-> PyInt(0)])

\* receive_message: the number of bytes to fetch after the 2 byte length
\* field, struct.unpack('! H', data)
ExpectFrom(prefix) == FromBigEndian(prefix)

\* a loop that every read timeout ends
TimeoutAlwaysEndsLoop(flag) == TRUE

\* run(): a read timeout ends the loop exactly when the terminate flag is set
TimeoutEndsLoop(flag) == flag

\* run(): the loop ends when the counter is below zero after the decrement
LoopCounterStart == 200

(***************************************************************************)
(* State                                                                   *)
(***************************************************************************)
VARIABLES
    pc,          \* where run() is: idle, helo, recv, dispatch, bye, returned, raised
    connection,  \* self.connection: 0 for None, else the number of the socket
    opened,      \* sockets created so far
    terminate,   \* self.__terminate
    i,           \* the loop counter of run()
    srv,         \* the server: [plain, left], the frames it may still write
    inflight,    \* the bytes of the frame being written that are still on the way
    at,          \* how many bytes of that frame have arrived
    inbuf,       \* the bytes in the client's socket, not yet returned by recv
    peerClosed,  \* the server has closed the connection
    stage,       \* receive_message: reading the length field or the rest
    need,        \* receive: the local length, the bytes still missing
    result,      \* receive: the local result, the bytes read so far
    data,        \* receive_message: the local data
    expected,    \* the frames written and not yet handed to factory, in order
    inorder,     \* every byte string handed to factory was the next frame written
    exc,         \* the exception the last call let escape, "" for none
    ev,          \* the client's last step: [op, io, sent], io what its socket
                 \* call did, sent the byte strings sendall has sent in it
    clock,       \* what time.time() * 1000 was in the last get_jiffies, as
                 \* <<[wraps, rem]>>; <<>> before the first call
    scen,        \* how much of the sequence frame dispatched to a handler,
                 \* read timeout, quit(), read timeout the run has shown: 0..4
    cstep,       \* codec runs: new, packed, raw, unpacked, resolved
    cmode,       \* codec runs: how pack was given its values
    cmsg,        \* codec runs: the message with the assigned fields
    cwire,       \* codec runs: what pack returned, or the raw frame
    cback        \* codec runs: what unpack or factory returned

sessionVars ==
    <<pc, connection, opened, terminate, i, srv, inflight, at, inbuf,
      peerClosed, stage, need, result, data, expected, inorder, exc, ev,
      clock, scen>>

codecVars == <<cstep, cmode, cmsg, cwire, cback>>

vars ==
    <<pc, connection, opened, terminate, i, srv, inflight, at, inbuf,
      peerClosed, stage, need, result, data, expected, inorder, exc, ev,
      clock, scen, cstep, cmode, cmsg, cwire, cback>>

(***************************************************************************)
(* Bounds and sampled inputs                                               *)
(***************************************************************************)
\* frames the server writes in a session whose writes arrive in pieces
MaxFrames == 2

\* sockets created before run()
MaxSockets == 3

\* the longest wildcard payload of a sampled message
MaxPayload == 2

\* the longest body of a sampled raw frame
MaxBody == 26

Event(op, io, bs) == [op |-> op, io |-> io, sent |-> bs]

\* a frame as the server writes it: H length of name and body, name, body
ServerFrame(name, body) == BigEndian(Len(body) + 4, 2) \o name \o body

RECURSIVE Fill(_, _)
Fill(n, b) == IF n = 0 THEN <<>> ELSE <<b>> \o Fill(n - 1, b)

\* the 24 fixed bytes of a strm body with the given command and replay_gain
StrmBody(command, gain) ==
    <<command, 49, 109, 63, 63, 63, 63, 0, 0, 0, 48, 0, 0, 0>>
    \o BigEndian(gain, 4) \o BigEndian(9000, 2) \o <<0, 0, 0, 0>>

StrmT == ServerFrame(<<115, 116, 114, 109>>, StrmBody(116, 7))

AudeFrame == ServerFrame(<<97, 117, 100, 101>>, <<1, 1>>)

UnknownFrame == ServerFrame(<<120, 120, 120, 120>>, <<1>>)

\* the frames of a session whose writes arrive in pieces
SampleFrames ==
    { StrmT,                                            \* strm t
      ServerFrame(<<115, 116, 114, 109>>, StrmBody(113, 0) \o <<71, 69, 84>>), \* strm q + headers
      ServerFrame(<<115, 116, 114, 109>>, StrmBody(255, 0)),            \* strm, command 0xff
      AudeFrame,
      ServerFrame(<<97, 117, 100, 103>>, Fill(18, 0)),
      ServerFrame(<<97, 117, 100, 103>>, Fill(22, 0)),
      ServerFrame(<<97, 117, 100, 103>>, Fill(3, 0)),                  \* no audg variant
      ServerFrame(<<115, 101, 116, 100>>, <<0, 97>>),
      UnknownFrame,                                     \* not registered
      ServerFrame(<<255, 117, 100, 101>>, <<1, 1>>),    \* name not ASCII
      <<0, 0>>,                                         \* length field 0
      <<0, 2, 97, 117>> }                               \* length field 2

\* the frames of a long session, whose writes arrive whole
PlainFrames == {AudeFrame, UnknownFrame}

\* where the writes of one frame may be cut on the way
CutPoints(frame) == {2, 6, Len(frame)} \cap (1..Len(frame))

\* the two kinds of session: a few frames of every kind, arriving in pieces;
\* or enough plain frames, arriving whole, for the loop of run() to end
Servers ==
    {[plain |-> FALSE, left |-> MaxFrames],
     [plain |-> TRUE, left |-> LoopCounterStart + 1]}

\* time.time() * 1000 as wraps * 2^32 + rem
Clock ==
    {[wraps |-> 400, rem |-> 0], [wraps |-> 400, rem |-> 2147483647],
     [wraps |-> 401, rem |-> 0]}

SendOutcomes == {"ok", "timeout", "error"}

(***************************************************************************)
(* The session: SlimClient                                                 *)
(***************************************************************************)
\* the codec variables while a session runs
CodecOff ==
    /\ cstep = "off"
    /\ cmode = "none"
    /\ cmsg = NoMessage
    /\ cwire = [err |-> "", bytes |-> <<>>]
    /\ cback = [err |-> "", m |-> NoMessage]

\* SlimClient.__init__
Init ==
    /\ pc = "idle"
    /\ connection = 0
    /\ opened = 0
    /\ terminate = FALSE
    /\ i = 0
    /\ srv \in Servers
    /\ inflight = <<>>
    /\ at = 0
    /\ inbuf = <<>>
    /\ peerClosed = FALSE
    /\ stage = "len"
    /\ need = 0
    /\ result = <<>>
    /\ data = <<>>
    /\ expected = <<>>
    /\ inorder = TRUE
    /\ exc = ""
    /\ ev = Event("init", "none", <<>>)
    /\ clock = <<>>
    /\ scen = 0
    /\ CodecOff

\* the locals of receive and receive_message, outside a read
NoRead == stage' = "len" /\ need' = 0 /\ result' = <<>> /\ data' = <<>>

\* the top of the loop of run(): receive_message starts with receive(2)
StartRead == stage' = "len" /\ need' = 2 /\ result' = <<>> /\ data' = <<>>

\* what sendall raises: AttributeError on None, else as the socket decides
SendError(o) ==
    IF connection = 0 THEN "AttributeError"
    ELSE IF o = "ok" THEN ""
    ELSE IF o = "timeout" THEN "socket.timeout"
    ELSE "socket.error"

is_connected == connection # 0

\* what the socket call of a send did; without a socket there is none
SocketCall(o) == IF connection = 0 THEN "none" ELSE o

\* connect(): logs when is_connected(), then opens a new socket either way
NewConnection == opened + 1

\* connect(); ok: whether socket.connect succeeded
connect(ok) ==
    /\ opened < MaxSockets
    /\ opened' = opened + 1
    /\ connection' = NewConnection
    /\ exc' = IF ok THEN "" ELSE "socket.error"
    /\ ev' = Event("connect", IF ok THEN "ok" ELSE "error", <<>>)

\* connect() called by the program before run()
CallConnect ==
    /\ pc = "idle"
    /\ \E ok \in BOOLEAN : connect(ok)
    /\ UNCHANGED <<pc, terminate, i, srv, inflight, at, inbuf, peerClosed,
                   stage, need, result, data, expected, inorder>>
    /\ UNCHANGED <<clock, scen>>
    /\ UNCHANGED codecVars

\* run(): self.connect(); as in __main__, run() is called on a new client
RunConnect ==
    /\ pc = "idle"
    /\ opened = 0
    /\ \E ok \in BOOLEAN : connect(ok) /\ pc' = IF ok THEN "helo" ELSE "raised"
    /\ UNCHANGED <<terminate, i, srv, inflight, at, inbuf, peerClosed,
                   stage, need, result, data, expected, inorder>>
    /\ UNCHANGED <<clock, scen>>
    /\ UNCHANGED codecVars

\* a run() that enters the receive loop without introducing itself
RunHeloSkipped ==
    /\ pc = "helo"
    /\ pc' = "recv"
    /\ i' = LoopCounterStart
    /\ StartRead
    /\ UNCHANGED <<connection, opened, terminate, srv, inflight, at, inbuf,
                   peerClosed, expected, inorder, exc, ev>>
    /\ UNCHANGED <<clock, scen>>
    /\ UNCHANGED codecVars

\* run(): self.action_helo(); i = 200
RunHelo ==
    /\ pc = "helo"
    /\ \E o \in SendOutcomes :
         LET e == IF action_helo.err # "" THEN action_helo.err ELSE SendError(o)
         IN  /\ exc' = e
             /\ IF e = ""
                THEN /\ ev' = Event("action_helo", o, <<action_helo.bytes>>)
                     /\ pc' = "recv"
                     /\ i' = LoopCounterStart
                     /\ StartRead
                ELSE /\ ev' = Event("action_helo", o, <<>>)
                     /\ pc' = "raised"
                     /\ UNCHANGED <<i, stage, need, result, data>>
    /\ UNCHANGED <<connection, opened, terminate, srv, inflight, at, inbuf,
                   peerClosed, expected, inorder>>
    /\ UNCHANGED <<clock, scen>>
    /\ UNCHANGED codecVars

\* a quit() that also aborts the read in progress
QuitInterrupts ==
    /\ terminate' = TRUE
    /\ scen' = IF scen = 2 THEN 3 ELSE scen
    /\ UNCHANGED clock
    /\ IF pc = "recv" THEN pc' = "returned" /\ NoRead
       ELSE UNCHANGED <<pc, stage, need, result, data>>
    /\ UNCHANGED <<connection, opened, i, srv, inflight, at, inbuf,
                   peerClosed, expected, inorder, exc, ev>>
    /\ UNCHANGED codecVars

\* quit()
Quit ==
    /\ terminate' = TRUE
    /\ scen' = IF scen = 2 THEN 3 ELSE scen
    /\ UNCHANGED clock
    /\ UNCHANGED <<pc, connection, opened, i, srv, inflight, at, inbuf,
                   peerClosed, stage, need, result, data, expected, inorder,
                   exc, ev>>
    /\ UNCHANGED codecVars

\* the server writes its next frame, once the last one has arrived; in a
\* long session, once the last one has been read
ServerSend ==
    /\ pc \in {"recv", "dispatch"}
    /\ ~peerClosed
    /\ srv.left > 0
    /\ inflight = <<>>
    /\ srv.plain => inbuf = <<>>
    /\ \E f \in IF srv.plain THEN PlainFrames ELSE SampleFrames :
          /\ expected' = IF inorder THEN Append(expected, f) ELSE expected
          /\ IF srv.plain
             THEN inbuf' = f /\ UNCHANGED inflight
             ELSE inflight' = f /\ UNCHANGED inbuf
    /\ at' = 0
    /\ srv' = [srv EXCEPT !.left = srv.left - 1]
    /\ UNCHANGED <<pc, connection, opened, terminate, i, peerClosed, stage,
                   need, result, data, inorder, exc, ev>>
    /\ UNCHANGED <<clock, scen>>
    /\ UNCHANGED codecVars

\* the next piece of the frame being written reaches the client's socket
Deliver ==
    /\ pc \in {"recv", "dispatch"}
    /\ inflight # <<>>
    /\ \E c \in CutPoints(inflight) :
          /\ (at + c) \in CutPoints(Fill(at, 0) \o inflight)
          /\ inbuf' = inbuf \o SubSeq(inflight, 1, c)
          /\ inflight' = SubSeq(inflight, c + 1, Len(inflight))
          /\ at' = at + c
    /\ UNCHANGED <<pc, connection, opened, terminate, i, srv, peerClosed,
                   stage, need, result, data, expected, inorder, exc, ev>>
    /\ UNCHANGED <<clock, scen>>
    /\ UNCHANGED codecVars

\* the connection is closed or lost; the bytes still on the way never arrive
ServerClose ==
    /\ pc \in {"recv", "dispatch"}
    /\ ~peerClosed
    /\ peerClosed' = TRUE
    /\ inflight' = <<>>
    /\ UNCHANGED <<pc, connection, opened, terminate, i, srv, at,
                   inbuf, stage, need, result, data, expected, inorder, exc, ev>>
    /\ UNCHANGED <<clock, scen>>
    /\ UNCHANGED codecVars

\* receive_message has the whole frame: it is handed to factory
FrameComplete(frame) ==
    /\ pc' = "dispatch"
    /\ stage' = "len"
    /\ need' = 0
    /\ result' = <<>>
    /\ data' = frame
    /\ IF inorder /\ expected # <<>> /\ Head(expected) = frame
       THEN expected' = Tail(expected) /\ UNCHANGED inorder
       ELSE expected' = <<>> /\ inorder' = FALSE

\* a receive that asks for a whole buffer whatever it still needs
RequestWholeBuffer(length) == buffersize

\* receive: the size it asks recv for, min(length, self.buffersize)
Request(length) == Min(length, buffersize)

\* receive: one recv that returns data, at most as much as was asked for;
\* `if length < 0` after the loop raises socket.error
RecvData ==
    /\ pc = "recv"
    /\ inbuf # <<>>
    /\ LET k == Min(Request(need), Len(inbuf))
           got == result \o SubSeq(inbuf, 1, k)
       IN  /\ inbuf' = SubSeq(inbuf, k + 1, Len(inbuf))
           /\ IF need - k > 0
              THEN /\ need' = need - k
                   /\ result' = got
                   /\ UNCHANGED <<pc, stage, data, expected, inorder, exc>>
              ELSE IF need - k < 0
              THEN /\ pc' = "raised"
                   /\ exc' = "socket.error"
                   /\ NoRead
                   /\ UNCHANGED <<expected, inorder>>
              ELSE IF stage = "len"
              THEN IF ExpectFrom(got) = 0
                   THEN FrameComplete(got) /\ UNCHANGED exc
                   ELSE /\ stage' = "body"
                        /\ need' = ExpectFrom(got)
                        /\ result' = <<>>
                        /\ data' = got
                        /\ UNCHANGED <<pc, expected, inorder, exc>>
              ELSE FrameComplete(data \o got) /\ UNCHANGED exc
    /\ ev' = Event("recv", "data", <<>>)
    /\ UNCHANGED <<connection, opened, terminate, i, srv, inflight, at,
                   peerClosed>>
    /\ UNCHANGED <<clock, scen>>
    /\ UNCHANGED codecVars

\* receive: recv raises socket.timeout; run() returns or reads again
RecvTimeout ==
    /\ pc = "recv"
    /\ inbuf = <<>>
    /\ ~peerClosed
    /\ ev' = Event("recv", "timeout", <<>>)
    /\ IF TimeoutEndsLoop(terminate)
       THEN pc' = "returned" /\ NoRead
       ELSE pc' = "recv" /\ StartRead
    /\ scen' = IF scen \in {1, 3} THEN scen + 1 ELSE scen
    /\ UNCHANGED clock
    /\ UNCHANGED <<connection, opened, terminate, i, srv, inflight, at, inbuf,
                   peerClosed, expected, inorder, exc>>
    /\ UNCHANGED codecVars

\* a receive loop that takes a read of no data for a timeout and reads again
RecvEofRetries ==
    /\ pc = "recv"
    /\ inbuf = <<>>
    /\ peerClosed
    /\ ev' = Event("recv", "eof", <<>>)
    /\ pc' = "recv"
    /\ StartRead
    /\ UNCHANGED <<connection, opened, terminate, i, srv, inflight, at, inbuf,
                   peerClosed, expected, inorder, exc, clock, scen>>
    /\ UNCHANGED codecVars

\* receive: recv returns no data, socket.error leaves run()
RecvEof ==
    /\ pc = "recv"
    /\ inbuf = <<>>
    /\ peerClosed
    /\ ev' = Event("recv", "eof", <<>>)
    /\ pc' = "raised"
    /\ exc' = "socket.error"
    /\ NoRead
    /\ UNCHANGED <<connection, opened, terminate, i, srv, inflight, at, inbuf,
                   peerClosed, expected, inorder>>
    /\ UNCHANGED <<clock, scen>>
    /\ UNCHANGED codecVars

\* run(): i = i - 1; if i < 0: break
\* a loop that ends one frame early: `if i <= 0: break`
LoopNextEndsAtZero ==
    /\ i' = i - 1
    /\ IF i - 1 <= 0 THEN pc' = "bye" /\ NoRead ELSE pc' = "recv" /\ StartRead

LoopNext ==
    /\ i' = i - 1
    /\ IF i - 1 < 0 THEN pc' = "bye" /\ NoRead ELSE pc' = "recv" /\ StartRead

\* an exception leaves run()
RunRaises(e) ==
    /\ pc' = "raised"
    /\ exc' = e
    /\ NoRead
    /\ UNCHANGED i

\* run(): factory of receive_message, then handle_message
Dispatch ==
    /\ pc = "dispatch"
    /\ LET r == factory("server", data)
           h == handle_message(r.m, <<>>, <<>>)
       IN  /\ IF r.err # ""
              THEN /\ RunRaises(r.err) /\ ev' = Event("dispatch", "none", <<>>)
                   /\ UNCHANGED clock
              ELSE IF h.err # ""
              THEN /\ RunRaises(h.err) /\ ev' = Event("dispatch", "none", <<>>)
                   /\ UNCHANGED clock
              ELSE IF h.stmt
              THEN \E now \in Clock :
                   \E st \in {action_stmt(h.timestamp, now)} :
                   \E o \in SendOutcomes :
                      LET e == IF st.err # "" THEN st.err ELSE SendError(o)
                      IN  /\ clock' = <<now>>
                          /\ IF e = ""
                             THEN /\ ev' = Event("dispatch", o, <<st.bytes>>)
                                  /\ LoopNext
                                  /\ UNCHANGED exc
                             ELSE RunRaises(e) /\ ev' = Event("dispatch", o, <<>>)
              ELSE /\ LoopNext /\ ev' = Event("dispatch", "none", <<>>)
                   /\ UNCHANGED <<exc, clock>>
           /\ scen' = IF scen = 0 /\ pc' # "raised" /\ h.trail # <<>>
                      THEN 1 ELSE scen
    /\ UNCHANGED <<connection, opened, terminate, srv, inflight, at, inbuf,
                   peerClosed, expected, inorder>>
    /\ UNCHANGED codecVars

\* action_bye(): `if self.is_connected:` tests the bound method, which is
\* always true, so the bye is packed and sent whatever the connection is;
\* only socket.timeout is caught
action_bye(o) ==
    LET e == IF ByeData.err # "" THEN ByeData.err ELSE SendError(o)
    IN  IF e = ""
        THEN /\ ev' = Event("action_bye", SocketCall(o), <<ByeData.bytes>>)
             /\ connection' = 0
             /\ exc' = ""
        ELSE IF e = "socket.timeout"
        THEN /\ ev' = Event("action_bye", SocketCall(o), <<>>)
             /\ connection' = 0
             /\ exc' = ""
        ELSE /\ ev' = Event("action_bye", SocketCall(o), <<>>)
             /\ exc' = e
             /\ UNCHANGED connection

\* run(): self.action_bye() after the loop
RunBye ==
    /\ pc = "bye"
    /\ \E o \in SendOutcomes :
          /\ action_bye(o)
          /\ pc' = IF exc' = "" THEN "returned" ELSE "raised"
    /\ UNCHANGED <<opened, terminate, i, srv, inflight, at, inbuf, peerClosed,
                   stage, need, result, data, expected, inorder>>
    /\ UNCHANGED <<clock, scen>>
    /\ UNCHANGED codecVars

\* action_bye() called by the program before run()
CallBye ==
    /\ pc = "idle"
    /\ \E o \in SendOutcomes : action_bye(o)
    /\ UNCHANGED <<pc, opened, terminate, i, srv, inflight, at, inbuf,
                   peerClosed, stage, need, result, data, expected, inorder>>
    /\ UNCHANGED <<clock, scen>>
    /\ UNCHANGED codecVars

\* the timestamps the program calls action_stmt with: the default 0, or None
StmtArgs == {PyInt(0), None}

\* action_stmt(timestamp) called by the program before run(): the message is
\* packed first, and only what pack returned is sent
CallStmtWith(timestamp) ==
    /\ pc = "idle"
    /\ \E now \in Clock :
       \E st \in {action_stmt(timestamp, now)} :
       \E o \in SendOutcomes :
          LET e == IF st.err # "" THEN st.err ELSE SendError(o)
          IN  /\ clock' = <<now>>
              /\ exc' = e
              /\ ev' = Event("action_stmt",
                             IF st.err # "" THEN "none" ELSE SocketCall(o),
                             IF e = "" THEN <<st.bytes>> ELSE <<>>)
    /\ UNCHANGED <<pc, connection, opened, terminate, i, srv, inflight, at,
                   inbuf, peerClosed, stage, need, result, data, expected,
                   inorder, scen>>
    /\ UNCHANGED codecVars

CallStmt == \E timestamp \in StmtArgs : CallStmtWith(timestamp)

Next ==
    \/ CallConnect
    \/ RunConnect
    \/ RunHelo
    \/ Quit
    \/ ServerSend
    \/ Deliver
    \/ ServerClose
    \/ RecvData
    \/ RecvTimeout
    \/ RecvEof
    \/ Dispatch
    \/ RunBye
    \/ CallBye
    \/ CallStmt

Spec == Init /\ [][Next]_vars

(***************************************************************************)
(* The codec on its own: messages are built, packed, unpacked and resolved *)
(* without a session                                                       *)
(***************************************************************************)
\* fields added to an instance after its constructor
MaxFields == 2

\* the definition strings given to add_field, 'key:formatchar', as
\* definition.split(':') splits them
Definitions ==
    [d \in {"a:B", "a:H", "a:*", "w:*", "spdif_enable:b"} |->
        CASE d = "a:B" -> Field("a", "B")
          [] d = "a:H" -> Field("a", "H")
          [] d = "a:*" -> Field("a", "*")
          [] d = "w:*" -> Field("w", "*")
          [] d = "spdif_enable:b" -> Field("spdif_enable", "b")]

\* the instances add_field is called on
SchemaStarts == {Constructed[cls].m : cls \in {"Bye", "Aude", "Setd"}}

\* how a sampled message gets its fixed fields: the smallest values, the
\* largest ones, mixed ones, or (Helo) the values action_helo passes
Profiles(cls) ==
    IF cls = "Helo" THEN {"low", "high", "mixed", "helo"}
    ELSE {"low", "high", "mixed"}

\* a value of exactly the width of format f
SampleValue(f, p) ==
    CASE f = "B" -> PyInt(IF p = "low" THEN 0 ELSE IF p = "high" THEN 255 ELSE 1)
      [] f = "H" -> PyInt(IF p = "low" THEN 0 ELSE IF p = "high" THEN 65535 ELSE 258)
      [] f \in {"L", "I", "Q"} ->
           PyInt(IF p = "low" THEN 0 ELSE IF p = "high" THEN 2147483647 ELSE 16909060)
      [] f = "b" -> PyInt(IF p = "low" THEN -128 ELSE IF p = "high" THEN 127 ELSE -1)
      [] f = "c" ->
           PyBytes(IF p = "low" THEN <<0>> ELSE IF p = "high" THEN <<255>> ELSE <<116>>)
      [] IsStringFmt(f) ->
           PyBytes(IF p = "low" THEN Fill(FmtSize(f), 0)
                   ELSE IF p = "high" THEN Fill(FmtSize(f), 255)
                   ELSE [k \in 1..FmtSize(f) |-> 96 + k])

\* the bytes a sampled payload is made of: one ASCII, one not
PayloadBytes == {97, 255}

\* the values given to a wildcard field: text or bytes, the empty one included
Payloads ==
    LET texts == UNION {[1..n -> PayloadBytes] : n \in 0..MaxPayload}
    IN  {PyStr(t) : t \in texts} \cup {PyBytes(t) : t \in texts}

\* message[key] = value for every field of a new instance of cls
SampleMessage(cls, p, payload) ==
    LET m == Constructed[cls].m
        val(k) == IF k > Len(m.formats) THEN payload
                  ELSE IF p = "helo" THEN HeloArgs[k]
                  ELSE SampleValue(m.formats[k], p)
    IN  SetItems(m, [k \in 1..Len(m.keys) |-> <<m.keys[k], val(k)>>])

\* the names of sampled raw frames: registered ones in both cases, and others
RawNames ==
    {<<97, 117, 100, 103>>, <<65, 85, 68, 71>>, <<97, 117, 100, 101>>,
     <<115, 116, 114, 109>>, <<115, 101, 116, 100>>, <<120, 120, 120, 120>>}

\* sampled bodies of a length: all 0, all 't', or the bytes 1, 2, 3, ...
RawBodies(len) == {Fill(len, 0), Fill(len, 116), [k \in 1..len |-> k]}

\* sampled raw server frames: every body length up to MaxBody
RawFrames ==
    {ServerFrame(n, body) : n \in RawNames, body \in UNION {RawBodies(len) : len \in 0..MaxBody}}

CodecInit ==
    /\ pc = "idle"
    /\ connection = 0
    /\ opened = 0
    /\ terminate = FALSE
    /\ i = 0
    /\ srv = [plain |-> FALSE, left |-> 0]
    /\ inflight = <<>>
    /\ at = 0
    /\ inbuf = <<>>
    /\ peerClosed = FALSE
    /\ stage = "len"
    /\ need = 0
    /\ result = <<>>
    /\ data = <<>>
    /\ expected = <<>>
    /\ inorder = TRUE
    /\ exc = ""
    /\ ev = Event("init", "none", <<>>)
    /\ clock = <<>>
    /\ scen = 0
    /\ cstep = "new"
    /\ cmode = "none"
    /\ cmsg = NoMessage
    /\ cwire = [err |-> "", bytes |-> <<>>]
    /\ cback = [err |-> "", m |-> NoMessage]

\* cls(), then message[key] = value for every field
CodecBuild ==
    /\ cstep = "new"
    /\ \E cls \in Classes :
       \E p \in Profiles(cls) :
       \E payload \in IF _has_variable_field(Constructed[cls].m)
                      THEN Payloads ELSE {None} :
          cmsg' = SampleMessage(cls, p, payload)
    /\ cstep' = "built"
    /\ UNCHANGED <<cmode, cwire, cback>>
    /\ UNCHANGED sessionVars

\* message.pack(), message.pack(*values) or message.pack(**fields)
CodecPack ==
    /\ cstep = "built"
    /\ \E mode \in {"stored", "args", "kwargs"} :
          LET args == IF mode = "args" THEN values(cmsg) ELSE <<>>
              kwargs == IF mode = "kwargs" THEN cmsg.data ELSE EmptyDict
          IN  /\ cmode' = mode
              /\ cwire' = pack(cmsg, args, kwargs)
              /\ cmsg' = AfterPack(cmsg, args, kwargs)
    /\ cstep' = "packed"
    /\ UNCHANGED cback
    /\ UNCHANGED sessionVars

\* cls(data) on what pack returned
CodecUnpack ==
    /\ cstep = "packed"
    /\ cwire.err = ""
    /\ cback' = ConstructFrom(cmsg.cls, cwire.bytes)
    /\ cstep' = "unpacked"
    /\ UNCHANGED <<cmode, cmsg, cwire>>
    /\ UNCHANGED sessionVars

\* a frame as it comes from a server
CodecRaw ==
    /\ cstep = "new"
    /\ \E frame \in RawFrames : cwire' = [err |-> "", bytes |-> frame]
    /\ cmode' = "raw"
    /\ cstep' = "raw"
    /\ UNCHANGED <<cmsg, cback>>
    /\ UNCHANGED sessionVars

\* SlimServerMessage.factory(data) on a raw frame
CodecFactory ==
    /\ cstep = "raw"
    /\ cback' = factory("server", cwire.bytes)
    /\ cstep' = "resolved"
    /\ UNCHANGED <<cmode, cmsg, cwire>>
    /\ UNCHANGED sessionVars

\* cls(data) on a raw frame, for a class of the caller's choice
CodecDecode ==
    /\ cstep = "raw"
    /\ \E cls \in Classes :
          /\ cmsg' = Constructed[cls].m
          /\ cback' = ConstructFrom(cls, cwire.bytes)
    /\ cstep' = "decoded"
    /\ UNCHANGED <<cmode, cwire>>
    /\ UNCHANGED sessionVars

\* message.add_field(definition) on a new instance, or on the one the last
\* add_field was called on; cback keeps the instance as it was before
CodecAddField ==
    /\ cstep \in {"new", "schema"}
    /\ \E before \in IF cstep = "new" THEN SchemaStarts ELSE {cmsg} :
       \E d \in DOMAIN Definitions :
          /\ Len(before.keys) < Len(Structure(before.cls)) + MaxFields
          /\ cmode' = d
          /\ cmsg' = add_field(before, Definitions[d]).m
          /\ cback' = [err |-> add_field(before, Definitions[d]).err, m |-> before]
    /\ cstep' = "schema"
    /\ UNCHANGED cwire
    /\ UNCHANGED sessionVars

\* SlimServerMessage.factory(data) on the frame a client message was packed to
CodecCrossFactory ==
    /\ cstep = "packed"
    /\ cwire.err = ""
    /\ Base(cmsg.cls) = "client"
    /\ cback' = factory("server", cwire.bytes)
    /\ cstep' = "crossed"
    /\ UNCHANGED <<cmode, cmsg, cwire>>
    /\ UNCHANGED sessionVars

\* sampled frames for a message that has its values: the header of its
\* class and a body one byte shorter than, as long as, or one byte longer
\* than its structure (for the classes whose body is within MaxBody)
RereadFrames(m) ==
    LET F == StructSize(m.formats)
    IN  {add_header(m.cls, body).bytes :
            body \in UNION {RawBodies(len) :
                               len \in {F - 1, F, F + 1} \cap (0..MaxBody + 1)}}

\* message.unpack(data) on a message whose fields have been assigned
CodecUnpackInto ==
    /\ cstep = "built"
    /\ \E frame \in RereadFrames(cmsg) :
          /\ cwire' = [err |-> "", bytes |-> frame]
          /\ cback' = unpack(cmsg, frame)
    /\ cstep' = "reread"
    /\ UNCHANGED <<cmode, cmsg>>
    /\ UNCHANGED sessionVars

\* body lengths around the largest the H length field can state: with the 4
\* bytes of the name 65534, 65535 and 65536
LongBodies == {65530, 65531, 65532}

\* a text of n letters 'a', held as a sequence
LongText(n) == SubSeq([k \in 1..n |-> 97], 1, n)

\* a Setd message whose body has the given length: pref_id and a text
LongSetd(len) ==
    SetItems(Constructed["Setd"].m,
             <<<<"pref_id", PyInt(0)>>, <<"value", PyStr(LongText(len - 1))>>>>)

\* message.pack() of a server message with a long variable field
CodecPackLong ==
    /\ cstep = "new"
    /\ \E len \in LongBodies :
          /\ cmsg' = LongSetd(len)
          /\ cwire' = pack(LongSetd(len), <<>>, EmptyDict)
    /\ cmode' = "stored"
    /\ cstep' = "long"
    /\ UNCHANGED cback
    /\ UNCHANGED sessionVars

CodecNext ==
    \/ CodecAddField
    \/ CodecBuild
    \/ CodecPack
    \/ CodecUnpack
    \/ CodecRaw
    \/ CodecFactory
    \/ CodecDecode
    \/ CodecCrossFactory
    \/ CodecUnpackInto
    \/ CodecPackLong

CodecSpec == CodecInit /\ [][CodecNext]_vars

(***************************************************************************)
(* Properties                                                              *)
(***************************************************************************)
\* C1: round trip. Packing a message with valid field values succeeds, and
\* unpacking what pack returned gives a message whose fields equal the ones
\* packed, the trailing wildcard field of Strm and Setd included.
C1_RoundTrip ==
    /\ cstep = "packed" => cwire.err = ""
    /\ cstep = "unpacked" =>
          /\ cback.err = ""
          /\ \A k \in 1..Len(cmsg.keys) :
                PyEq(cback.m.data[cmsg.keys[k]], cmsg.data[cmsg.keys[k]])

\* C1: a Setd whose text payload was packed and unpacked
C1_Witness ==
    /\ cstep = "unpacked"
    /\ cmsg.cls = "Setd"
    /\ cmsg.data["value"] = PyStr(<<97>>)
    /\ cback.err = ""

\* C2: every byte string receive_message hands to factory is the next frame
\* the server wrote, whole: its length field followed by that many bytes, and
\* the k-th one handed over is the k-th one written, whenever the read
\* timeouts fire.
C2_FramesWholeAndInOrder ==
    /\ inorder
    /\ pc = "dispatch" =>
          /\ Len(data) >= 2
          /\ Len(data) = 2 + FromBigEndian(Slice(data, 0, 2))

\* C3: run() is never left with an exception of the decoding of a frame
\* (struct.error, UnicodeDecodeError, ValueError), whatever the frame holds.
C3_DecodingFaultsContained ==
    pc = "raised" => exc \notin {"struct.error", "UnicodeDecodeError", "ValueError"}

\* C4: run() returns only out of action_bye, and with the connection absent.
C4_ExitThroughBye ==
    pc = "returned" => ev.op = "action_bye" /\ connection = 0

\* C5: a read timeout with the terminate flag unset leaves run() in the loop,
\* about to read the next frame from its length field, with nothing sent and
\* connection, counter and flag as they were; with the flag set it makes
\* run() return.
C5_TimeoutPolicy ==
    [][RecvTimeout =>
          IF terminate
          THEN pc' = "returned"
          ELSE /\ pc' = "recv"
               /\ stage' = "len"
               /\ need' = 2
               /\ result' = <<>>
               /\ ev'.sent = <<>>
               /\ connection' = connection
               /\ i' = i
               /\ terminate' = terminate
               /\ exc' = exc]_vars

\* C5: a frame was dispatched to its handler, a timeout was survived, quit()
\* was called, and the next timeout has made run() return
C5_Witness ==
    /\ scen = 4
    /\ pc = "returned"
    /\ terminate
    /\ ev = Event("recv", "timeout", <<>>)

\* C6: connect() on a client whose last connect() succeeded keeps the
\* connection it has.
C6_ConnectIdempotent ==
    [][is_connected /\ ev = Event("connect", "ok", <<>>) /\ ev'.op = "connect"
          => connection' = connection]_vars

\* C7: once action_bye has finished, the connection is absent, however the
\* send of the bye ended, and a timeout of that send reaches no caller.
C7_ByeReleasesConnection ==
    ev.op = "action_bye" =>
        /\ connection = 0
        /\ ev.io = "timeout" => exc = ""

C9_ServerFraming ==
    cstep = "packed" /\ Base(cmsg.cls) = "server" /\ cwire.err = "" =>
        LET frame == cwire.bytes
            vals == values(cmsg)
            nfixed == Len(cmsg.formats)
            payload == IF _has_variable_field(cmsg) THEN vals[Len(vals)].v ELSE <<>>
            body == StructPack(cmsg.formats, SubSeq(vals, 1, nfixed)).bytes \o payload
            L == StructSize(cmsg.formats) + Len(payload)
        IN  /\ Len(body) = L
            /\ frame = BigEndian(L + 4, 2) \o Lower(Name(cmsg.cls)) \o body
            /\ 2 + ExpectFrom(Slice(frame, 0, 2)) = Len(frame)
            /\ Slice(frame, 2, 6) = Name(cmsg.cls)
            /\ ServerNameFromData(frame) = [err |-> "", name |-> Name(cmsg.cls)]

\* C9: a packed Setd with a payload of two characters
C9_Witness ==
    /\ cstep = "packed"
    /\ cmsg.cls = "Setd"
    /\ cwire.err = ""
    /\ Len(cmsg.data["value"].v) = 2
    /\ Slice(cwire.bytes, 0, 2) = <<0, 7>>

\* C10: Helo packed with the values of action_helo is 'HELO', the big endian
\* number 36 in 4 bytes and 36 body bytes: deviceid 12, revision 0, the mac,
\* the hostid, the channels, the byte counter, 'en'; and the length field of
\* every packed client message is the number of bytes after its 8 byte header.
C10_HeloFraming ==
    /\ cstep = "packed" /\ cmsg.cls = "Helo" /\ values(cmsg) = HeloArgs =>
          cwire = [err |-> "",
                   bytes |-> <<72, 69, 76, 79, 0, 0, 0, 36, 12, 0>> \o mac \o hostid
                             \o <<7, 255, 0, 0, 0, 0, 0, 0, 0, 0, 101, 110>>]
    /\ cstep = "packed" /\ Base(cmsg.cls) = "client" /\ cwire.err = "" =>
          /\ Len(cwire.bytes) >= 8
          /\ Slice(cwire.bytes, 0, 4) = Upper(Name(cmsg.cls))
          /\ FromBigEndian(Slice(cwire.bytes, 4, 8)) = Len(cwire.bytes) - 8

\* C10: the Helo of action_helo, packed from positional values
C10_Witness ==
    /\ cstep = "packed"
    /\ cmode = "args"
    /\ cmsg.cls = "Helo"
    /\ values(cmsg) = HeloArgs
    /\ Len(cwire.bytes) = 44

\* C11: unpack of a frame whose body (the bytes after the header) has n
\* bytes, by a class whose structure has F bytes, succeeds exactly when
\* n = F (no variable field) or n >= F (variable field); then field k holds
\* the value of its format at its offset in the body and the variable field
\* holds the bytes after the first F; otherwise it raises ValueError.
C11_DecodeAcceptance ==
    cstep = "decoded" =>
        LET m == cmsg
            body == SliceFrom(cwire.bytes,
                              Min(HeaderSize(Base(m.cls)), Len(cwire.bytes)))
            F == StructSize(m.formats)
            n == Len(body)
            accepted == IF _has_variable_field(m) THEN n >= F ELSE n = F
            offset(k) == StructSize(SubSeq(m.formats, 1, k - 1))
        IN  /\ (cback.err = "") <=> accepted
            /\ ~accepted => cback.err = "ValueError"
            /\ accepted =>
                  /\ \A k \in 1..Len(m.formats) :
                        cback.m.data[m.keys[k]] =
                           UnpackValue(m.formats[k],
                                       SubSeq(body, offset(k) + 1,
                                              offset(k) + FmtSize(m.formats[k])))
                  /\ _has_variable_field(m) =>
                        cback.m.data[m.keys[Len(m.keys)]] = PyBytes(SubSeq(body, F + 1, n))

\* C11: a Setd decoded from a body of three different bytes
C11_Witness ==
    /\ cstep = "decoded"
    /\ cmsg.cls = "Setd"
    /\ cback.err = ""
    /\ cback.m.data["pref_id"] = PyInt(1)
    /\ cback.m.data["value"] = PyBytes(<<2, 3>>)

\* C12: whenever pack(name1=v1, ..., namen=vn) succeeds, pack(v1, ..., vn)
\* with the same values in the order of the structure succeeds too and
\* returns the same bytes, for every class, those with a variable field
\* included.
C12_PositionalEqualsByName ==
    cstep = "packed" /\ cmode = "args" /\ pack(cmsg, <<>>, cmsg.data).err = "" =>
        cwire = pack(cmsg, <<>>, cmsg.data)

\* C13: add_field on an instance that has a variable field raises, whatever
\* the format of the new field, and leaves keys and formats as they were;
\* so an instance never has more keys than formats plus one, the variable
\* field being the key without a format, the last one.
C13_VariableFieldIsLast ==
    cstep = "schema" =>
        /\ _has_variable_field(cback.m) =>
              /\ cback.err = "Exception"
              /\ cmsg.keys = cback.m.keys
              /\ cmsg.formats = cback.m.formats
        /\ Len(cmsg.keys) - Len(cmsg.formats) \in {0, 1}
        /\ Len(cback.m.keys) - Len(cback.m.formats) \in {0, 1}

\* C13: a fixed field refused by an instance whose field w is a variable one
C13_Witness ==
    /\ cstep = "schema"
    /\ cmode = "a:B"
    /\ cback.err = "Exception"
    /\ cback.m.cls = "Aude"
    /\ cback.m.keys = <<"spdif_enable", "dac_enable", "w">>
    /\ cmsg.keys = cback.m.keys

\* C14: add_field with the key of a field the instance has raises and does
\* not extend the keys.
C14_KeysUnique ==
    cstep = "schema" /\ Definitions[cmode].key \in Range(cback.m.keys) =>
        /\ cback.err # ""
        /\ cmsg.keys = cback.m.keys

\* C15: a recv that returns no bytes, while the length field or the rest of
\* a frame is being read, makes socket.error leave run(): nothing is handed
\* to factory or dispatched, nothing is sent, and from then on run() does
\* nothing more: it reads no byte and stays left.
C15_ZeroReadIsFatal ==
    [][/\ RecvEof =>
             /\ pc' = "raised"
             /\ exc' = "socket.error"
             /\ data' = <<>>
             /\ ev'.sent = <<>>
             /\ i' = i
             /\ inbuf' = inbuf
       /\ pc = "raised" =>
             /\ pc' = "raised"
             /\ inbuf' = inbuf
             /\ ev' = ev]_vars

\* C15: the connection was lost after the length field and the name of a
\* frame had been read, and the read of the rest got no bytes
C15_Witness ==
    /\ pc = "raised"
    /\ exc = "socket.error"
    /\ ev = Event("recv", "eof", <<>>)
    /\ at = 6
    /\ expected # <<>>
    /\ inorder

\* C16: quit() sets the terminate flag and nothing else; with the flag set
\* a recv that returns data and a dispatch go on as ever and never make
\* run() return; run() returns with the flag set only at a read timeout (or
\* out of action_bye, when the counter has run out), and the first read
\* timeout with the flag set does make it return.
C16_QuitHonouredAtTimeout ==
    [][/\ Quit =>
             /\ terminate'
             /\ <<pc, connection, i, stage, need, result, data, inbuf, exc, ev>>' =
                <<pc, connection, i, stage, need, result, data, inbuf, exc, ev>>
       /\ terminate /\ RecvData => pc' \in {"recv", "dispatch"}
       /\ terminate /\ Dispatch => pc' \in {"recv", "bye", "raised"}
       /\ terminate /\ pc # "returned" /\ pc' = "returned" => RecvTimeout \/ RunBye
       /\ terminate /\ RecvTimeout => pc' = "returned"]_vars

\* C16: the flag is set, no timeout has come, and run() has read a whole
\* frame that it is about to dispatch
C16_Witness ==
    /\ terminate
    /\ pc = "dispatch"
    /\ data = AudeFrame
    /\ i < LoopCounterStart

C18_HeloOnceBeforeFirstRead ==
    [][/\ pc' = "helo" /\ pc # "helo" => pc = "idle" /\ connection' # 0
       /\ pc = "helo" /\ pc' = "helo" => ev' = ev /\ inbuf' = inbuf
       /\ pc = "helo" /\ pc' # "helo" =>
             /\ ev'.op = "action_helo"
             /\ inbuf' = inbuf
             /\ connection' = connection
             /\ \/ /\ pc' = "recv"
                   /\ ev' = Event("action_helo", "ok", <<action_helo.bytes>>)
                   /\ exc' = ""
                   /\ i' = LoopCounterStart
                   /\ stage' = "len" /\ result' = <<>> /\ data' = <<>>
                \/ /\ pc' = "raised"
                   /\ ev'.sent = <<>>
                   /\ exc' # ""
       /\ pc' = "recv" /\ pc \notin {"recv", "dispatch"} => pc = "helo"
       /\ ev'.op = "action_helo" /\ ev.op # "action_helo" => pc = "helo"
       /\ inbuf' # inbuf /\ Len(inbuf') <= Len(inbuf) => pc = "recv"]_vars

\* C18: the Helo message is sent and the first read has begun, although the
\* server has sent nothing at all
C18_Witness ==
    /\ pc = "recv"
    /\ ev = Event("action_helo", "ok", <<action_helo.bytes>>)
    /\ i = LoopCounterStart
    /\ stage = "len" /\ result = <<>>
    /\ inbuf = <<>> /\ inflight = <<>> /\ expected = <<>>

\* C19: every value get_jiffies returns is in 0 .. 2^32 - 1, and from one
\* call of get_jiffies to the next the value does not decrease unless the
\* millisecond clock has passed a multiple of 2^32 in between.
C19_JiffiesNonDecreasing ==
    [][clock' # clock =>
          LET jiffies == get_jiffies(clock'[1])
          IN  /\ jiffies >= 0
              /\ jiffies \div 65536 < 65536
              /\ clock # <<>> =>
                    \/ jiffies >= get_jiffies(clock[1])
                    \/ clock'[1].wraps > clock[1].wraps]_vars

\* C19: a status report of the run with the counter at the lowest value of
\* its wrap
C19_Witness ==
    /\ clock = <<[wraps |-> 400, rem |-> 0]>>
    /\ get_jiffies(clock[1]) = 0
    /\ pc = "recv"
    /\ ev.op = "dispatch" /\ ev.sent # <<>>

\* C20: the dispatch of a received frame makes a socket call exactly when
\* the frame decodes to a strm message whose command is 't'. It then makes
\* one send: when the send succeeds, what was sent is one STAT message that
\* decodes to event_code 'STMt' and to the server_timestamp that is the
\* frame's replay_gain, and the next read starts afresh after it; when the
\* send fails, nothing was sent and the exception leaves run(). No byte is
\* taken from the connection during the dispatch. The dispatch of every
\* other frame sends nothing and makes no socket call.
C20_StatOnlyOnTiming ==
    [][pc = "dispatch" /\ pc' # "dispatch" =>
          LET r == factory("server", data)
              timing == /\ r.err = ""
                        /\ r.m # NoMessage
                        /\ r.m.cls = "Strm"
                        /\ r.m.data["command"] = PyBytes(<<116>>)
          IN  /\ inbuf' = inbuf
              /\ ev'.op = "dispatch"
              /\ IF timing
                 THEN /\ ev'.io \in SendOutcomes
                      /\ \/ /\ ev'.io = "ok"
                            /\ pc' \in {"recv", "bye"}
                            /\ pc' = "recv" => stage' = "len" /\ result' = <<>>
                            /\ Len(ev'.sent) = 1
                            /\ SubSeq(ev'.sent[1], 1, 4) = <<83, 84, 65, 84>>
                            /\ LET back == ConstructFrom("Stat", ev'.sent[1])
                               IN  /\ back.err = ""
                                   /\ back.m.data["event_code"] =
                                         PyBytes(<<83, 84, 77, 116>>)
                                   /\ back.m.data["server_timestamp"] =
                                         r.m.data["replay_gain"]
                         \/ /\ ev'.io # "ok"
                            /\ pc' = "raised"
                            /\ ev'.sent = <<>>
                 ELSE /\ ev'.io = "none"
                      /\ ev'.sent = <<>>]_vars

\* C20: the status report for a timing frame is sent and the next read has
\* begun with nothing of it read yet
C20_Witness ==
    /\ pc = "recv"
    /\ ev.op = "dispatch" /\ ev.io = "ok" /\ Len(ev.sent) = 1
    /\ stage = "len" /\ result = <<>>
    /\ expected # <<>>

Unresolvable(frame) ==
    /\ Len(frame) >= HeaderSize("server")
    /\ ServerNameFromData(frame).err = ""
    /\ \A k \in 1..Len(ServerClasses) :
          Name(ServerClasses[k]) = ServerNameFromData(frame).name =>
             ConstructFrom(ServerClasses[k], frame).err = "ValueError"

\* C22: the dispatch of a frame that no class takes invokes no handler, makes
\* no socket call, sends nothing, raises nothing, reads nothing, and leaves
\* the connection, the terminate flag and the clock reading as they were; it
\* counts as a handled frame, and the loop goes on to a fresh read of the
\* next frame unless the frame was the last the counter of run() allows
\* (the 201st), in which case run() leaves the loop for action_bye.
C22_UnresolvableIsDropped ==
    [][pc = "dispatch" /\ pc' # "dispatch" /\ Unresolvable(data) =>
          /\ handle_message(factory("server", data).m, <<>>, <<>>).trail = <<>>
          /\ scen' = scen
          /\ ev' = Event("dispatch", "none", <<>>)
          /\ exc' = exc
          /\ inbuf' = inbuf
          /\ connection' = connection
          /\ terminate' = terminate
          /\ clock' = clock
          /\ i' = i - 1
          /\ IF i > 0
             THEN pc' = "recv" /\ stage' = "len" /\ need' = 2 /\ result' = <<>>
             ELSE pc' = "bye"]_vars

\* C22: after the dispatch of a frame that no class takes the loop always
\* goes on to read the next frame.
C22_UnresolvableNeverEndsLoop ==
    [][pc = "dispatch" /\ pc' # "dispatch" /\ Unresolvable(data) =>
          pc' = "recv"]_vars

\* C22: the first frame of the run was dropped without a handler (scen is
\* still 0) and the read of the next frame has begun
C22_Witness ==
    /\ pc = "recv"
    /\ ev = Event("dispatch", "none", <<>>)
    /\ scen = 0
    /\ i = LoopCounterStart - 1
    /\ stage = "len" /\ need = 2 /\ result = <<>>
    /\ connection # 0
    /\ ~terminate
    /\ exc = ""

\* C23: the dispatch of a strm message whose command is not 't', for which
\* the client has no handler, makes no socket call, sends nothing, raises
\* nothing, and leaves the connection, the terminate flag and the clock
\* reading as they were; the frame is counted and the loop goes on to a
\* fresh read (or, the counter of run() used up, to action_bye).
C23_NoHandlerIsNoError ==
    [][LET r == factory("server", data)
       IN  /\ pc = "dispatch" /\ pc' # "dispatch"
           /\ r.err = ""
           /\ r.m # NoMessage
           /\ r.m.cls = "Strm"
           /\ r.m.data["command"] # PyBytes(<<116>>)
           => /\ ev' = Event("dispatch", "none", <<>>)
              /\ exc' = exc
              /\ inbuf' = inbuf
              /\ connection' = connection
              /\ terminate' = terminate
              /\ clock' = clock
              /\ i' = i - 1
              /\ IF i > 0
                 THEN pc' = "recv" /\ stage' = "len" /\ need' = 2 /\ result' = <<>>
                 ELSE pc' = "bye"]_vars

\* C24: the frame that pack returns for a Helo, Bye or Stat message, with
\* whatever field values, resolves to no message in SlimServerMessage.factory
\* (which returns None and raises nothing), while SlimClientMessage.factory
\* resolves the same bytes to the class that was packed.
C24_FramingsNotInterchangeable ==
    cstep = "crossed" =>
        /\ cmsg.cls \in {"Helo", "Bye", "Stat"}
        /\ cback = [err |-> "", m |-> NoMessage]
        /\ factory("client", cwire.bytes).err = ""
        /\ factory("client", cwire.bytes).m.cls = cmsg.cls

\* C24: a packed Stat message was given to the resolver of server messages
C24_Witness ==
    /\ cstep = "crossed"
    /\ cmsg.cls = "Stat"
    /\ Slice(cwire.bytes, 0, 4) = <<83, 84, 65, 84>>
    /\ cback.m = NoMessage

\* C25: the dispatch of a resolved message invokes at most two handlers: the
\* one named by the message and, for a strm message only, after it the one
\* named strm_ and the sub-command, if the client has it; then run() is back
\* in its loop (at the next read or, the counter used up, on its way to
\* action_bye), unless the send of a handler has failed.
C25_DispatchChainReturns ==
    [][LET r == factory("server", data)
           h == handle_message(r.m, <<>>, <<>>)
       IN  /\ pc = "dispatch" /\ pc' # "dispatch"
           /\ r.err = ""
           /\ r.m # NoMessage
           => /\ Len(h.trail) \in 1..2
              /\ h.trail[1] = Name(r.m.cls)
              /\ Len(h.trail) = 2 =>
                    /\ r.m.cls = "Strm"
                    /\ h.trail[2] = Name("Strm") \o <<95>> \o r.m.data["command"].v
                    /\ h.trail[2] \in Handlers
              /\ \/ pc' \in {"recv", "bye"} /\ i' = i - 1 /\ exc' = exc
                 \/ pc' = "raised" /\ ev'.io \in {"timeout", "error"}]_vars

\* C25: a chain of two handlers, handle_strm and handle_strm_t, has run and
\* the loop is at its next read
C25_Witness ==
    /\ pc = "recv"
    /\ ev.op = "dispatch" /\ ev.io = "ok"
    /\ scen = 1
    /\ i = LoopCounterStart - 1

\* C26: run() enters its loop with the counter at 200; a read, a timeout of
\* a read or a quit() leaves the counter alone; every dispatch that returns,
\* of a resolved frame or not, takes one off; the loop is left for
\* action_bye exactly by the dispatch that finds the counter at 0, which in
\* a session of whole frames is that of the 201st frame the server has
\* sent, whatever the terminate flag is; and action_bye then sends the bye
\* message if the socket takes it.
C26_LoopEndsAfter201Frames ==
    [][/\ pc = "helo" /\ pc' = "recv" => i' = LoopCounterStart
       /\ pc = "recv" => i' = i
       /\ pc = "dispatch" /\ pc' \in {"recv", "bye"} =>
             /\ i' = i - 1
             /\ pc' = "bye" <=> i = 0
       /\ pc # "bye" /\ pc' = "bye" =>
             /\ pc = "dispatch"
             /\ i' = -1
             /\ srv = [plain |-> TRUE, left |-> 0]
       /\ pc = "bye" /\ pc' # "bye" =>
             /\ ev'.op = "action_bye"
             /\ ev'.io \in SendOutcomes
             /\ ev'.io = "ok" =>
                   ev'.sent = <<ByeData.bytes>> /\ pc' = "returned"]_vars

\* C26: the loop has ended by its counter, no quit() was called, and the bye
\* message is sent
C26_Witness ==
    /\ pc = "returned"
    /\ ev = Event("action_bye", "ok", <<ByeData.bytes>>)
    /\ i = -1
    /\ ~terminate
    /\ srv = [plain |-> TRUE, left |-> 0]

\* C27: a recv of receive takes at least one byte and never more than the
\* bytes receive still misses, from the front of what has arrived, and
\* leaves the rest (the bytes of the following frame) where it is; the
\* number of missing bytes stays at 0 or above, so 'too much data received'
\* is never raised; the receive of the length field ends with exactly 2
\* bytes, the receive of the rest with exactly as many as the length field
\* states, and for a length field of 0 it returns the empty string without
\* a recv, the frame being the 2 bytes of the length field.
C27_ReceiveExactly ==
    [][RecvData =>
          LET k == Len(inbuf) - Len(inbuf')
              taken == SubSeq(inbuf, 1, k)
          IN  /\ k \in 1..need
              /\ inbuf' = SubSeq(inbuf, k + 1, Len(inbuf))
              /\ need' >= 0
              /\ pc' \in {"recv", "dispatch"}
              /\ exc' = exc
              /\ pc' = "recv" /\ stage' = stage =>
                    /\ need' = need - k /\ need' > 0
                    /\ result' = result \o taken
                    /\ data' = data
              /\ pc' = "recv" /\ stage' # stage =>
                    /\ stage = "len" /\ stage' = "body"
                    /\ k = need
                    /\ data' = result \o taken
                    /\ Len(data') = 2
                    /\ need' = ExpectFrom(data') /\ need' > 0
                    /\ result' = <<>>
              /\ pc' = "dispatch" =>
                    /\ k = need
                    /\ data' = (IF stage = "len" THEN <<>> ELSE data) \o result \o taken
                    /\ Len(data') = 2 + ExpectFrom(SubSeq(data', 1, 2))
                    /\ stage = "len" => ExpectFrom(data') = 0]_vars

\* C27: a frame with the length field 0 is complete, read in order, while
\* the first bytes of the frame after it have arrived and are still unread
C27_Witness ==
    /\ pc = "dispatch"
    /\ data = <<0, 0>>
    /\ inorder
    /\ expected # <<>>
    /\ inbuf # <<>>
    /\ inbuf = SubSeq(Head(expected), 1, Len(inbuf))

C29_FailedDecodeIsAtomic ==
    cstep = "reread" =>
        LET body == Len(cwire.bytes) - HeaderSize(Base(cmsg.cls))
            F == StructSize(cmsg.formats)
            fits == IF _has_variable_field(cmsg) THEN body >= F ELSE body = F
        IN  /\ cback.err \in {"", "ValueError"}
            /\ (cback.err = "ValueError") <=> ~fits
            /\ cback.m.keys = cmsg.keys
            /\ cback.m.formats = cmsg.formats
            /\ cback.err = "ValueError" =>
                  /\ cback.m.data = cmsg.data
                  /\ cback.m = cmsg
            /\ cback.err = "" =>
                  cback.m.data = ConstructFrom(cmsg.cls, cwire.bytes).m.data

\* C29: a Setd message holding 1 and 'a' has refused a buffer without a
\* body and still holds 1 and 'a'
C29_Witness ==
    /\ cstep = "reread"
    /\ cmsg.cls = "Setd"
    /\ Len(cwire.bytes) = HeaderSize("server")
    /\ cback.err = "ValueError"
    /\ cback.m.data["pref_id"] = PyInt(1)
    /\ cback.m.data["value"] = PyStr(<<97>>)

\* C30: pack of a server message whose body has more than 65531 bytes
\* raises struct.error and returns no frame; pack of one whose body has at
\* most 65531 bytes returns a frame of the body and 6 more bytes whose first
\* two bytes are the number body length + 4; and so are the first two bytes
\* of every frame that pack returns for a sampled server message.
C30_LengthFieldNeverWraps ==
    /\ cstep = "long" =>
          LET body == FmtSize("B") + Len(cmsg.data["value"].v)
          IN  IF body + 4 > 65535
              THEN cwire.err = "struct.error" /\ cwire.bytes = <<>>
              ELSE /\ cwire.err = ""
                   /\ Len(cwire.bytes) = body + 6
                   /\ FromBigEndian(Slice(cwire.bytes, 0, 2)) = body + 4
    /\ cstep = "packed" /\ Base(cmsg.cls) = "server" /\ cwire.err = "" =>
          FromBigEndian(Slice(cwire.bytes, 0, 2)) = Len(cwire.bytes) - 2

\* C30: the pack of a Setd message with a body of 65532 bytes has raised
C30_Witness ==
    /\ cstep = "long"
    /\ cmsg.cls = "Setd"
    /\ Len(cmsg.data["value"].v) = 65531
    /\ cwire.err = "struct.error"

=============================================================================
